---- MODULE Spec2Model ----
(***************************************************************************)
(* Model of deploy.py (DMAPDeployer, main, deploy_dmap_application) and of *)
(* its caller test_service_call.py.  One run of the script is a walk       *)
(* through the step methods; every subprocess the script starts is an      *)
(* input whose outcome is chosen when the step runs.                       *)
(***************************************************************************)
EXTENDS Integers, Sequences, FiniteSets, TLC

VARIABLES
    vm_config,        \* the VM mapping, as the sequence of its items() in iteration order
    args,             \* argparse namespace of main (all flags off for a programmatic call)
    entry,            \* "none" | "main" | "service": who started the flow
    flow,             \* "none" | "deploy" | "setup_docker_only"
    skip_connectivity_test, \* parameter of deploy
    setup_docker_first,     \* parameter of deploy
    docker_available, \* local of deploy, set by step 4
    pc,               \* name of the step method invoked next, or "start"/"returned"/"exited"
    ret,              \* value returned by the flow (meaningful once pc is "returned"/"exited")
    exit_code,        \* value returned by main, -1 while main has not returned
    config_error,     \* TRUE when reading --vm-config raised
    calls,            \* step methods invoked so far, with their return values
    cmds,             \* external commands started so far, with their outcomes
    inventory_file,   \* content of inventory.yml
    seen,             \* content of inventory.yml read by each remote step of this invocation
    peer              \* a second invocation of deploy on the same workspace (its own locals)

vars == <<vm_config, args, entry, flow, skip_connectivity_test, setup_docker_first,
          docker_available, pc, ret, exit_code, config_error, calls, cmds, inventory_file,
          seen, peer>>

----------------------------------------------------------------------------
(* Bounds *)

MaxVMs == 5

----------------------------------------------------------------------------
(* Data *)

\* the four groups the inventory template looks up
Roles == {"backend", "postgres", "neo4j", "kafka"}

\* services an entry may carry: the four roles and one the template ignores
Services == Roles \cup {"redis"}

VMNames == <<"vm1", "vm2", "vm3", "vm4", "vm5", "vm6", "vm7", "vm8">>

\* (ip, username) pairs entries are drawn from
VMCreds == {<<"54.226.239.194", "ubuntu">>, <<"10.0.0.7", "admin">>}

default_vm_config ==
    << [name |-> "vm1", ip |-> "54.226.239.194", username |-> "ubuntu", service |-> "postgres"],
       [name |-> "vm2", ip |-> "18.207.127.165", username |-> "ubuntu", service |-> "neo4j"],
       [name |-> "vm3", ip |-> "3.83.229.79",    username |-> "ubuntu", service |-> "kafka"],
       [name |-> "vm4", ip |-> "54.167.120.93",  username |-> "ubuntu", service |-> "backend"] >>

service_vm_config ==
    << [name |-> "vm1", ip |-> "54.209.105.96", username |-> "ubuntu", service |-> "postgres"],
       [name |-> "vm2", ip |-> "54.205.202.78", username |-> "ubuntu", service |-> "neo4j"],
       [name |-> "vm3", ip |-> "52.90.125.49",  username |-> "ubuntu", service |-> "kafka"],
       [name |-> "vm4", ip |-> "3.93.70.249",   username |-> "ubuntu", service |-> "backend"] >>

\* a mapping built from a choice c of (service, (ip, username)) per entry; dict keys
\* are distinct, so the k-th key is VMNames[k]
MakeConfig(c) ==
    [i \in DOMAIN c |-> [name |-> VMNames[i], ip |-> c[i][2][1],
                         username |-> c[i][2][2], service |-> c[i][1]]]

\* mappings a run of the whole flow is started with: the hosts of the default
\* mapping, each carrying any of the four roles (so roles may be missing or repeated)
FlowConfigs ==
    { [i \in DOMAIN default_vm_config |-> [default_vm_config[i] EXCEPT !.service = f[i]]]
      : f \in [DOMAIN default_vm_config -> Roles] }
    \cup {service_vm_config}

inventory_vars ==
    [ansible_ssh_private_key_file |-> "~/.ssh/id_rsa",
     ansible_ssh_common_args |-> "-o StrictHostKeyChecking=no",
     docker_registry |-> "ngdmapo",
     docker_repo |-> "dmap_app_modernization",
     docker_hub_username |-> "{{ lookup('env', 'DOCKER_HUB_USERNAME') | default('ngdmapo') }}",
     docker_hub_password |-> "{{ lookup('env', 'DOCKER_HUB_PASSWORD') | default('') }}"]

\* inventory.yml: absent, or a document all.children.<role>.hosts / all.vars
NoFile == [exists |-> FALSE, children |-> [r \in Roles |-> {}], vars |-> inventory_vars]

\* outcomes of subprocess.run: exit status zero, non-zero, or an exception starting it
RunOutcomes == {"zero", "nonzero", "raise"}

\* outcomes of `docker images -q ansible-control`: an id printed, nothing printed, exception
ImageOutcomes == {"present", "absent", "raise"}

NoArgs == [vm_config |-> FALSE, skip_connectivity |-> FALSE,
           skip_docker_setup |-> FALSE, docker_setup_only |-> FALSE]

ArgSets == [vm_config : BOOLEAN, skip_connectivity : BOOLEAN,
            skip_docker_setup : BOOLEAN, docker_setup_only : BOOLEAN]

----------------------------------------------------------------------------
(* Step methods of DMAPDeployer *)

check_container_exists(img) == img = "present"

check_docker_on_vms(o) == o = "zero"

test_connectivity(o) == o = "zero"

run_deployment(o) == o = "zero"

setup_docker(o) == o = "zero"

\* variant: starts the build without looking at the image query
build_always_builds(img, o) ==
    [ret |-> (o = "zero"),
     cmds |-> <<[cmd |-> "docker_images", outcome |-> img],
                [cmd |-> "docker_build", outcome |-> o]>>]

\* returns the result and the commands started
build_ansible_container(img, o) ==
    IF check_container_exists(img)
    THEN [ret |-> TRUE, cmds |-> <<[cmd |-> "docker_images", outcome |-> img]>>]
    ELSE [ret |-> (o = "zero"),
          cmds |-> <<[cmd |-> "docker_images", outcome |-> img],
                     [cmd |-> "docker_build", outcome |-> o]>>]

\* variant: ansible_host and ansible_user sources exchanged
RECURSIVE service_to_vm_swapped(_, _)
service_to_vm_swapped(cfg, n) ==
    IF n = 0 THEN [s \in {} |-> 0]
    ELSE (cfg[n].service :> [vm_name |-> cfg[n].name, ip |-> cfg[n].username,
                             username |-> cfg[n].ip])
         @@ service_to_vm_swapped(cfg, n - 1)

\* variant: an entry already stored for a service is kept
RECURSIVE service_to_vm_keep_first(_, _)
service_to_vm_keep_first(cfg, n) ==
    IF n = 0 THEN [s \in {} |-> 0]
    ELSE service_to_vm_keep_first(cfg, n - 1)
         @@ (cfg[n].service :> [vm_name |-> cfg[n].name, ip |-> cfg[n].ip,
                                username |-> cfg[n].username])

\* the loop of update_inventory: service_to_vm[service] = {...} for each item in order
RECURSIVE service_to_vm(_, _)
service_to_vm(cfg, n) ==
    IF n = 0 THEN [s \in {} |-> 0]
    ELSE (cfg[n].service :> [vm_name |-> cfg[n].name, ip |-> cfg[n].ip,
                             username |-> cfg[n].username])
         @@ service_to_vm(cfg, n - 1)

\* the document update_inventory builds from the lookups service_to_vm[role]
inventory_doc(stv) ==
    [exists |-> TRUE,
     children |-> [r \in Roles |->
                     {[name |-> stv[r].vm_name, ansible_host |-> stv[r].ip,
                       ansible_user |-> stv[r].username]}],
     vars |-> inventory_vars]

\* variant: the file is opened for writing before the lookups are made
update_inventory_truncating(cfg, file) ==
    LET stv == service_to_vm(cfg, Len(cfg)) IN
    IF \E r \in Roles : r \notin DOMAIN stv
    THEN [ret |-> FALSE, file |-> [NoFile EXCEPT !.exists = TRUE]]
    ELSE [ret |-> TRUE, file |-> inventory_doc(stv)]

\* returns the result and the content of inventory.yml after the call
update_inventory(cfg, file) ==
    LET stv == service_to_vm(cfg, Len(cfg)) IN
    IF \E r \in Roles : r \notin DOMAIN stv
    THEN [ret |-> FALSE, file |-> file]               \* KeyError, caught before open()
    ELSE [ret |-> TRUE, file |-> inventory_doc(stv)]

----------------------------------------------------------------------------
(* Control flow of deploy: the position reached after each step.           *)
(* "FAILED" is `return False`, "DONE" is the final `return True`.          *)

deploy_after_build(ok) == IF ok THEN "update_inventory" ELSE "FAILED"

\* variant: the skip flag read the wrong way round
deploy_after_inventory_inverted(ok, skip) ==
    IF ~ok THEN "FAILED"
    ELSE IF skip THEN "test_connectivity" ELSE "check_docker_on_vms"

\* variant: the result of update_inventory is dropped
deploy_after_inventory_unchecked(ok, skip) ==
    IF ~skip THEN "test_connectivity" ELSE "check_docker_on_vms"

deploy_after_inventory(ok, skip) ==
    IF ~ok THEN "FAILED"
    ELSE IF ~skip THEN "test_connectivity" ELSE "check_docker_on_vms"

\* variant: the result of the connectivity test is dropped
deploy_after_connectivity_ignored(ok) == "check_docker_on_vms"

deploy_after_connectivity(ok) == IF ok THEN "check_docker_on_vms" ELSE "FAILED"

\* variant: an unavailable runtime with setup skipped aborts
deploy_after_check_strict(available, setup_first) ==
    IF ~available /\ setup_first THEN "setup_docker"
    ELSE IF ~available THEN "FAILED" ELSE "run_deployment"

\* variant: the installer runs whatever the check said
deploy_after_check_unconditional(available, setup_first) ==
    IF setup_first THEN "setup_docker" ELSE "run_deployment"

deploy_after_check(available, setup_first) ==
    IF ~available /\ setup_first THEN "setup_docker" ELSE "run_deployment"

deploy_after_setup(ok) == IF ok THEN "run_deployment" ELSE "FAILED"

deploy_after_run(ok) == IF ok THEN "DONE" ELSE "FAILED"

(* Control flow of setup_docker_only *)

setup_only_after_build(ok) == IF ok THEN "update_inventory" ELSE "FAILED"

setup_only_after_inventory(ok) == IF ok THEN "test_connectivity" ELSE "FAILED"

setup_only_after_connectivity(ok) == IF ok THEN "setup_docker" ELSE "FAILED"

setup_only_after_setup(ok) == IF ok THEN "DONE" ELSE "FAILED"

\* variant: the exit status does not depend on the result
main_exit_zero(success) == 0

\* `return 0 if success else 1`
main_exit(success) == IF success THEN 0 ELSE 1

\* move to position n of the running flow
Goto(n) ==
    /\ pc' = IF n \in {"FAILED", "DONE"} THEN "returned" ELSE n
    /\ ret' = (n = "DONE")

Called(step, r) == calls' = Append(calls, [step |-> step, ret |-> r])

----------------------------------------------------------------------------
(* Initial states *)

\* an inventory.yml left behind by an earlier run
OldInventory == update_inventory(service_vm_config, NoFile).file

\* no second invocation is running
NoPeer ==
    [vm_config |-> <<>>, skip_connectivity_test |-> FALSE, setup_docker_first |-> TRUE,
     docker_available |-> FALSE, pc |-> "absent", ret |-> FALSE, calls |-> <<>>,
     seen |-> <<>>]

Init ==
    /\ vm_config = <<>>
    /\ args = NoArgs
    /\ entry = "none"
    /\ flow = "none"
    /\ skip_connectivity_test = FALSE
    /\ setup_docker_first = TRUE
    /\ docker_available = FALSE
    /\ pc = "start"
    /\ ret = FALSE
    /\ exit_code = -1
    /\ config_error = FALSE
    /\ calls = <<>>
    /\ cmds = <<>>
    /\ inventory_file \in {NoFile, OldInventory}
    /\ seen = <<>>
    /\ peer = NoPeer

----------------------------------------------------------------------------
(* Entry points *)

\* main: parse the arguments, load the mapping, select the flow
MainStart ==
    /\ pc = "start"
    /\ entry' = "main"
    /\ \E a \in ArgSets :
        /\ args' = a
        /\ \/ /\ a.vm_config                       \* json.load raised
              /\ config_error' = TRUE
              /\ exit_code' = 1
              /\ pc' = "exited"
              /\ UNCHANGED <<vm_config, flow, skip_connectivity_test, setup_docker_first>>
           \/ /\ IF a.vm_config
                 THEN vm_config' \in FlowConfigs
                 ELSE vm_config' = default_vm_config
              /\ pc' = "build_ansible_container"
              /\ IF a.docker_setup_only
                 THEN /\ flow' = "setup_docker_only"
                      /\ UNCHANGED <<skip_connectivity_test, setup_docker_first>>
                 ELSE /\ flow' = "deploy"
                      /\ skip_connectivity_test' = a.skip_connectivity
                      /\ setup_docker_first' = ~a.skip_docker_setup
              /\ UNCHANGED <<config_error, exit_code>>
    /\ UNCHANGED <<docker_available, ret, calls, cmds, inventory_file,
                   seen, peer>>

\* deploy_dmap_application(vm_config), as test_service_call.main calls it
ServiceStart ==
    /\ pc = "start"
    /\ entry' = "service"
    /\ vm_config' \in FlowConfigs
    /\ flow' = "deploy"
    /\ skip_connectivity_test' = FALSE
    /\ setup_docker_first' = TRUE
    /\ pc' = "build_ansible_container"
    /\ UNCHANGED <<args, docker_available, ret, exit_code, config_error, calls, cmds,
                   inventory_file,
                   seen, peer>>

----------------------------------------------------------------------------
(* Steps *)

BuildStep ==
    /\ pc = "build_ansible_container"
    /\ \E img \in ImageOutcomes, o \in RunOutcomes :
        LET b == build_ansible_container(img, o) IN
        /\ cmds' = cmds \o b.cmds
        /\ Called("build_ansible_container", b.ret)
        /\ Goto(IF flow = "deploy" THEN deploy_after_build(b.ret)
                ELSE setup_only_after_build(b.ret))
    /\ UNCHANGED <<vm_config, args, entry, flow, skip_connectivity_test, setup_docker_first,
                   docker_available, exit_code, config_error, inventory_file,
                   seen, peer>>

InventoryStep ==
    /\ pc = "update_inventory"
    /\ LET u == update_inventory(vm_config, inventory_file) IN
        /\ inventory_file' = u.file
        /\ Called("update_inventory", u.ret)
        /\ Goto(IF flow = "deploy" THEN deploy_after_inventory(u.ret, skip_connectivity_test)
                ELSE setup_only_after_inventory(u.ret))
    /\ UNCHANGED <<vm_config, args, entry, flow, skip_connectivity_test, setup_docker_first,
                   docker_available, exit_code, config_error, cmds,
                   seen, peer>>

ConnectivityStep ==
    /\ pc = "test_connectivity"
    /\ \E o \in RunOutcomes :
        /\ cmds' = Append(cmds, [cmd |-> "ansible_ping", outcome |-> o])
        /\ Called("test_connectivity", test_connectivity(o))
        /\ Goto(IF flow = "deploy" THEN deploy_after_connectivity(test_connectivity(o))
                ELSE setup_only_after_connectivity(test_connectivity(o)))
    /\ seen' = Append(seen, inventory_file)
    /\ UNCHANGED <<vm_config, args, entry, flow, skip_connectivity_test, setup_docker_first,
                   docker_available, exit_code, config_error, inventory_file,
                   peer>>

CheckStep ==
    /\ pc = "check_docker_on_vms"
    /\ \E o \in RunOutcomes :
        /\ cmds' = Append(cmds, [cmd |-> "ansible_docker_version", outcome |-> o])
        /\ Called("check_docker_on_vms", check_docker_on_vms(o))
        /\ docker_available' = check_docker_on_vms(o)
        /\ Goto(deploy_after_check(check_docker_on_vms(o), setup_docker_first))
    /\ seen' = Append(seen, inventory_file)
    /\ UNCHANGED <<vm_config, args, entry, flow, skip_connectivity_test, setup_docker_first,
                   exit_code, config_error, inventory_file,
                   peer>>

SetupStep ==
    /\ pc = "setup_docker"
    /\ \E o \in RunOutcomes :
        /\ cmds' = Append(cmds, [cmd |-> "playbook_setup_docker", outcome |-> o])
        /\ Called("setup_docker", setup_docker(o))
        /\ Goto(IF flow = "deploy" THEN deploy_after_setup(setup_docker(o))
                ELSE setup_only_after_setup(setup_docker(o)))
    /\ seen' = Append(seen, inventory_file)
    /\ UNCHANGED <<vm_config, args, entry, flow, skip_connectivity_test, setup_docker_first,
                   docker_available, exit_code, config_error, inventory_file,
                   peer>>

RunStep ==
    /\ pc = "run_deployment"
    /\ \E o \in RunOutcomes :
        /\ cmds' = Append(cmds, [cmd |-> "playbook_deploy_services", outcome |-> o])
        /\ Called("run_deployment", run_deployment(o))
        /\ Goto(deploy_after_run(run_deployment(o)))
    /\ seen' = Append(seen, inventory_file)
    /\ UNCHANGED <<vm_config, args, entry, flow, skip_connectivity_test, setup_docker_first,
                   docker_available, exit_code, config_error, inventory_file,
                   peer>>

\* main's `return 0 if success else 1`
MainExit ==
    /\ pc = "returned"
    /\ entry = "main"
    /\ exit_code' = main_exit(ret)
    /\ pc' = "exited"
    /\ UNCHANGED <<vm_config, args, entry, flow, skip_connectivity_test, setup_docker_first,
                   docker_available, ret, config_error, calls, cmds, inventory_file,
                   seen, peer>>

Next ==
    \/ MainStart
    \/ ServiceStart
    \/ BuildStep
    \/ InventoryStep
    \/ ConnectivityStep
    \/ CheckStep
    \/ SetupStep
    \/ RunStep
    \/ MainExit

Spec == Init /\ [][Next]_vars

----------------------------------------------------------------------------
(* update_inventory on its own, applied to every bounded mapping *)

InitInventory ==
    /\ \E k \in 0..MaxVMs : \E c \in [1..k -> Services \X VMCreds] :
          vm_config = MakeConfig(c)
    /\ args = NoArgs
    /\ entry = "service"
    /\ flow = "deploy"
    /\ skip_connectivity_test = FALSE
    /\ setup_docker_first = TRUE
    /\ docker_available = FALSE
    /\ pc = "update_inventory"
    /\ ret = FALSE
    /\ exit_code = -1
    /\ config_error = FALSE
    /\ calls = <<>>
    /\ cmds = <<>>
    /\ inventory_file = OldInventory
    /\ seen = <<>>
    /\ peer = NoPeer

NextInventory == InventoryStep

SpecInventory == InitInventory /\ [][NextInventory]_vars

----------------------------------------------------------------------------
(* Two invocations of deploy on one workspace.  Each has its own locals;   *)
(* self.inventory_file is the same path for both, and nothing locks it.    *)

\* the peer moves to position n after calling step, which returned r
PeerAdvance(step, r, n, remote) ==
    peer' = [peer EXCEPT
               !.pc = IF n \in {"FAILED", "DONE"} THEN "returned" ELSE n,
               !.ret = (n = "DONE"),
               !.calls = Append(@, [step |-> step, ret |-> r]),
               !.seen = IF remote THEN Append(@, inventory_file) ELSE @]

PeerBuildStep ==
    /\ peer.pc = "build_ansible_container"
    /\ \E img \in ImageOutcomes, o \in RunOutcomes :
        LET b == build_ansible_container(img, o) IN
        PeerAdvance("build_ansible_container", b.ret, deploy_after_build(b.ret), FALSE)
    /\ UNCHANGED <<vm_config, args, entry, flow, skip_connectivity_test, setup_docker_first,
                   docker_available, pc, ret, exit_code, config_error, calls, cmds,
                   inventory_file, seen>>

PeerInventoryStep ==
    /\ peer.pc = "update_inventory"
    /\ LET u == update_inventory(peer.vm_config, inventory_file) IN
        /\ inventory_file' = u.file
        /\ PeerAdvance("update_inventory", u.ret,
                       deploy_after_inventory(u.ret, peer.skip_connectivity_test), FALSE)
    /\ UNCHANGED <<vm_config, args, entry, flow, skip_connectivity_test, setup_docker_first,
                   docker_available, pc, ret, exit_code, config_error, calls, cmds, seen>>

PeerConnectivityStep ==
    /\ peer.pc = "test_connectivity"
    /\ \E o \in RunOutcomes :
        PeerAdvance("test_connectivity", test_connectivity(o),
                    deploy_after_connectivity(test_connectivity(o)), TRUE)
    /\ UNCHANGED <<vm_config, args, entry, flow, skip_connectivity_test, setup_docker_first,
                   docker_available, pc, ret, exit_code, config_error, calls, cmds,
                   inventory_file, seen>>

PeerCheckStep ==
    /\ peer.pc = "check_docker_on_vms"
    /\ \E o \in RunOutcomes :
        peer' = [peer EXCEPT
                   !.pc = deploy_after_check(check_docker_on_vms(o), peer.setup_docker_first),
                   !.docker_available = check_docker_on_vms(o),
                   !.calls = Append(@, [step |-> "check_docker_on_vms",
                                        ret |-> check_docker_on_vms(o)]),
                   !.seen = Append(@, inventory_file)]
    /\ UNCHANGED <<vm_config, args, entry, flow, skip_connectivity_test, setup_docker_first,
                   docker_available, pc, ret, exit_code, config_error, calls, cmds,
                   inventory_file, seen>>

PeerSetupStep ==
    /\ peer.pc = "setup_docker"
    /\ \E o \in RunOutcomes :
        PeerAdvance("setup_docker", setup_docker(o), deploy_after_setup(setup_docker(o)), TRUE)
    /\ UNCHANGED <<vm_config, args, entry, flow, skip_connectivity_test, setup_docker_first,
                   docker_available, pc, ret, exit_code, config_error, calls, cmds,
                   inventory_file, seen>>

PeerRunStep ==
    /\ peer.pc = "run_deployment"
    /\ \E o \in RunOutcomes :
        PeerAdvance("run_deployment", run_deployment(o), deploy_after_run(run_deployment(o)),
                    TRUE)
    /\ UNCHANGED <<vm_config, args, entry, flow, skip_connectivity_test, setup_docker_first,
                   docker_available, pc, ret, exit_code, config_error, calls, cmds,
                   inventory_file, seen>>

\* a mapping that lacks the kafka role
missing_role_vm_config == [default_vm_config EXCEPT ![3].service = "backend"]

\* mappings the two concurrent invocations are given
ConcurrentConfigs == {default_vm_config, service_vm_config, missing_role_vm_config}

\* both invocations have entered deploy, with different mappings
InitConcurrent ==
    /\ vm_config \in ConcurrentConfigs
    /\ args = NoArgs
    /\ entry = "service"
    /\ flow = "deploy"
    /\ skip_connectivity_test \in BOOLEAN
    /\ setup_docker_first \in BOOLEAN
    /\ docker_available = FALSE
    /\ pc = "build_ansible_container"
    /\ ret = FALSE
    /\ exit_code = -1
    /\ config_error = FALSE
    /\ calls = <<>>
    /\ cmds = <<>>
    /\ inventory_file = OldInventory
    /\ seen = <<>>
    /\ \E c \in ConcurrentConfigs \ {vm_config}, skip \in BOOLEAN, setup \in BOOLEAN :
         peer = [NoPeer EXCEPT !.vm_config = c, !.skip_connectivity_test = skip,
                               !.setup_docker_first = setup,
                               !.pc = "build_ansible_container"]

NextConcurrent ==
    \/ BuildStep
    \/ InventoryStep
    \/ ConnectivityStep
    \/ CheckStep
    \/ SetupStep
    \/ RunStep
    \/ PeerBuildStep
    \/ PeerInventoryStep
    \/ PeerConnectivityStep
    \/ PeerCheckStep
    \/ PeerSetupStep
    \/ PeerRunStep

SpecConcurrent == InitConcurrent /\ [][NextConcurrent]_vars

----------------------------------------------------------------------------
(* Vocabulary of the properties *)

Returned == pc \in {"returned", "exited"} /\ flow # "none"

Invoked(step) == \E i \in DOMAIN calls : calls[i].step = step

StepNames == [i \in DOMAIN calls |-> calls[i].step]

LastCall == calls[Len(calls)]

EntriesOf(cfg, r) == {i \in DOMAIN cfg : cfg[i].service = r}

\* exactly one entry for each of the four roles
FourRole(cfg) == \A r \in Roles : Cardinality(EntriesOf(cfg, r)) = 1

AllRolesPresent(cfg) == \A r \in Roles : EntriesOf(cfg, r) # {}

MissingRole(cfg) == \E r \in Roles : EntriesOf(cfg, r) = {}

DuplicateRole(cfg) == \E r \in Roles : Cardinality(EntriesOf(cfg, r)) >= 2

FirstOf(cfg, r) == CHOOSE i \in EntriesOf(cfg, r) : \A j \in EntriesOf(cfg, r) : i <= j

LastOf(cfg, r) == CHOOSE i \in EntriesOf(cfg, r) : \A j \in EntriesOf(cfg, r) : j <= i

\* the single-host group an input entry should appear as
HostOf(e) == {[name |-> e.name, ansible_host |-> e.ip, ansible_user |-> e.username]}

AllCommandsSucceeded ==
    \A i \in DOMAIN cmds : cmds[i].outcome \in {"zero", "present", "absent"}

ExpectedOrder ==
    <<"build_ansible_container", "update_inventory", "test_connectivity",
      "check_docker_on_vms", "run_deployment">>

CheckFailedBefore(i) ==
    \E j \in 1..(i - 1) : calls[j] = [step |-> "check_docker_on_vms", ret |-> FALSE]

----------------------------------------------------------------------------
(* C1: in deploy, a failing step other than check_docker_on_vms is the     *)
(* last step invoked, deploy has then returned False, and no step is       *)
(* invoked twice.                                                          *)
C1_FailFast ==
    flow = "deploy" =>
        /\ \A i \in DOMAIN calls :
             (calls[i].step # "check_docker_on_vms" /\ ~calls[i].ret)
                => (i = Len(calls) /\ Returned /\ ret = FALSE)
        /\ \A i, j \in DOMAIN calls : calls[i].step = calls[j].step => i = j

C1_Witness ==
    /\ flow = "deploy"
    /\ Returned
    /\ Len(calls) = 5
    /\ LastCall = [step |-> "setup_docker", ret |-> FALSE]

(* C2: deploy_dmap_application on a four-role mapping with every command   *)
(* succeeding invokes build, inventory, connectivity, check, deployment in *)
(* that order, once each, never the installer, and returns True.           *)
C2_HappyPath ==
    (entry = "service" /\ FourRole(vm_config) /\ AllCommandsSucceeded) =>
        /\ Len(calls) <= Len(ExpectedOrder)
        /\ StepNames = SubSeq(ExpectedOrder, 1, Len(calls))
        /\ ~Invoked("setup_docker")
        /\ Returned => (ret = TRUE /\ StepNames = ExpectedOrder)

C2_Witness ==
    /\ entry = "service"
    /\ vm_config = service_vm_config
    /\ AllCommandsSucceeded
    /\ Returned
    /\ ret = TRUE
    /\ StepNames = ExpectedOrder

(* C3: when check_docker_on_vms returned False and setup_docker_first is   *)
(* false, deploy does not invoke setup_docker, goes on to run_deployment,  *)
(* and returns what run_deployment returned.                               *)
C3_PermissiveFallback ==
    (/\ flow = "deploy"
     /\ ~setup_docker_first
     /\ Invoked("check_docker_on_vms")
     /\ ~docker_available) =>
        /\ ~Invoked("setup_docker")
        /\ \/ pc = "run_deployment"
           \/ /\ Returned
              /\ LastCall.step = "run_deployment"
              /\ ret = LastCall.ret

C3_Witness ==
    /\ flow = "deploy"
    /\ ~setup_docker_first
    /\ [step |-> "check_docker_on_vms", ret |-> FALSE] \in {calls[i] : i \in DOMAIN calls}
    /\ Returned
    /\ ret = TRUE

C5_SkipConnectivity ==
    (skip_connectivity_test \/ args.skip_connectivity) =>
        /\ ~Invoked("test_connectivity")
        /\ \A i \in DOMAIN calls :
             (calls[i] = [step |-> "update_inventory", ret |-> TRUE] /\ i < Len(calls))
                => calls[i + 1].step = "check_docker_on_vms"

(* C6: for a mapping with exactly one entry per role, update_inventory     *)
(* returns True and the file holds under each role exactly the one host    *)
(* with the name, address and user of the entry carrying that role.        *)
C6_InventoryMatchesInput ==
    (FourRole(vm_config) /\ calls # <<>>) =>
        /\ calls[1] = [step |-> "update_inventory", ret |-> TRUE]
        /\ inventory_file.exists
        /\ \A r \in Roles :
             /\ Cardinality(inventory_file.children[r]) = 1
             /\ inventory_file.children[r] = HostOf(vm_config[FirstOf(vm_config, r)])

C6_Witness ==
    /\ FourRole(vm_config)
    /\ Len(vm_config) = 5
    /\ \E i, j \in DOMAIN vm_config : vm_config[i].ip # vm_config[j].ip
    /\ calls = <<[step |-> "update_inventory", ret |-> TRUE]>>
    /\ inventory_file # OldInventory

(* C7: on a mapping missing a required role, update_inventory returns      *)
(* False and inventory.yml is left exactly as it was.                      *)
C7_MissingRoleNoWrite ==
    [][(pc = "update_inventory" /\ MissingRole(vm_config)) =>
          /\ inventory_file' = inventory_file
          /\ calls' = Append(calls, [step |-> "update_inventory", ret |-> FALSE])]_vars

C7_Witness ==
    /\ MissingRole(vm_config)
    /\ Len(vm_config) >= 3
    /\ calls = <<[step |-> "update_inventory", ret |-> FALSE]>>
    /\ inventory_file = OldInventory
    /\ pc = "returned"

(* C8: when the image exists build_ansible_container returns True and the  *)
(* build command is not started; the build command is started only when    *)
(* the image is absent, and the result is then True exactly when the       *)
(* build exits zero.                                                       *)
C8_BuildOnlyWhenAbsent ==
    calls # <<>> =>
        /\ calls[1].step = "build_ansible_container"
        /\ cmds[1].cmd = "docker_images"
        /\ \A i \in DOMAIN cmds : cmds[i].cmd = "docker_build" => i = 2
        /\ IF cmds[1].outcome = "present"
           THEN /\ calls[1].ret = TRUE
                /\ \A i \in DOMAIN cmds : cmds[i].cmd # "docker_build"
           ELSE /\ Len(cmds) >= 2
                /\ cmds[2].cmd = "docker_build"
                /\ calls[1].ret = (cmds[2].outcome = "zero")

C8_Witness ==
    /\ calls # <<>>
    /\ cmds[1] = [cmd |-> "docker_images", outcome |-> "present"]
    /\ calls[1].ret = TRUE
    /\ Len(calls) >= 2

FlowCompleted ==
    /\ calls # <<>>
    /\ LastCall.ret
    /\ LastCall.step = IF flow = "deploy" THEN "run_deployment" ELSE "setup_docker"

StepAborted ==
    \E i \in DOMAIN calls :
        ~calls[i].ret /\ ~(flow = "deploy" /\ calls[i].step = "check_docker_on_vms")

(* C9: main returns 0 exactly when the selected flow ran to its last step  *)
(* successfully and 1 otherwise: 1 when a step aborted, and 1 when the     *)
(* --vm-config file could not be loaded, with no step invoked then.        *)
C9_ExitCode ==
    /\ pc # "exited" => exit_code = -1
    /\ pc = "exited" =>
        /\ exit_code \in {0, 1}
        /\ exit_code = 0 <=> (flow # "none" /\ FlowCompleted)
        /\ StepAborted => exit_code = 1
        /\ config_error => (exit_code = 1 /\ args.vm_config /\ calls = <<>> /\ cmds = <<>>)
        /\ (flow = "none") <=> config_error

C9_Witness ==
    /\ pc = "exited"
    /\ exit_code = 0
    /\ FlowCompleted
    /\ args.vm_config

(* C10, as stated: with a role carried by two or more entries (all four    *)
(* roles present), update_inventory writes the first entry seen for each   *)
(* role.                                                                   *)
C10_Original ==
    (DuplicateRole(vm_config) /\ AllRolesPresent(vm_config) /\ calls # <<>>) =>
        \A r \in Roles :
            inventory_file.children[r] = HostOf(vm_config[FirstOf(vm_config, r)])

(* C10, amended: with a role carried by two or more entries (all four      *)
(* roles present), update_inventory returns True and writes for each role  *)
(* the last entry seen in the mapping's iteration order.                   *)
C10_Amended ==
    (DuplicateRole(vm_config) /\ AllRolesPresent(vm_config) /\ calls # <<>>) =>
        /\ calls[1] = [step |-> "update_inventory", ret |-> TRUE]
        /\ \A r \in Roles :
             inventory_file.children[r] = HostOf(vm_config[LastOf(vm_config, r)])

C10_Witness ==
    /\ DuplicateRole(vm_config)
    /\ AllRolesPresent(vm_config)
    /\ calls = <<[step |-> "update_inventory", ret |-> TRUE]>>
    /\ \E r \in Roles :
         /\ vm_config[FirstOf(vm_config, r)].ip # vm_config[LastOf(vm_config, r)].ip
         /\ inventory_file.children[r] = HostOf(vm_config[LastOf(vm_config, r)])

RemoteSteps == {"test_connectivity", "check_docker_on_vms", "setup_docker", "run_deployment"}

RemoteCalls(cl) == {i \in DOMAIN cl : cl[i].step \in RemoteSteps}

UpdateSucceeded(cl) ==
    \E i \in DOMAIN cl : cl[i] = [step |-> "update_inventory", ret |-> TRUE]

\* the inventory a mapping carrying all four roles is written as
DocOf(cfg) == inventory_doc(service_to_vm(cfg, Len(cfg)))

\* what a remote step of an invocation can find in inventory.yml: its own mapping or
\* the other invocation's, each only once the owner's update_inventory has succeeded
SeenOwnOrOther(s, ownCfg, ownCalls, otherCfg, otherCalls) ==
    /\ Len(s) = Cardinality(RemoteCalls(ownCalls))
    /\ s # <<>> => UpdateSucceeded(ownCalls)
    /\ \A i \in DOMAIN s :
         \/ s[i] = DocOf(ownCfg)
         \/ UpdateSucceeded(otherCalls) /\ s[i] = DocOf(otherCfg)

(* C11: inventory.yml is shared by concurrent invocations of deploy and    *)
(* not locked: every remote step runs on the inventory of the own mapping  *)
(* or on that of the other invocation's mapping (the latter once the       *)
(* other's update_inventory succeeded), and the second case is reachable.  *)
C11_SharedInventory ==
    /\ SeenOwnOrOther(seen, vm_config, calls, peer.vm_config, peer.calls)
    /\ SeenOwnOrOther(peer.seen, peer.vm_config, peer.calls, vm_config, calls)

C11_Witness ==
    /\ vm_config # peer.vm_config
    /\ AllRolesPresent(vm_config)
    /\ AllRolesPresent(peer.vm_config)
    /\ peer.pc # "absent"
    /\ calls # <<>>
    /\ LastCall.step \in RemoteSteps
    /\ seen[Len(seen)] = DocOf(peer.vm_config)
    /\ seen[Len(seen)] # DocOf(vm_config)

====
